---- MODULE Spec2Model ----
(***************************************************************************)
(* Model of the AmbientCG material importer add-on (src/__init__.py).      *)
(*                                                                         *)
(* Five parts share this module:                                           *)
(*   - the material browser's pagination state and the two handlers that   *)
(*     reconcile it (on_page_change, fetch_browser_materials.execute),     *)
(*     modelled statement by statement with an explicit call stack,        *)
(*     because the host runs the update callback of ambientcg_goto_page    *)
(*     synchronously inside every assignment to that property;             *)
(*   - the texture files on disk, restore_unused_texture, process_texture  *)
(*     and mark_unused_textures.execute;                                   *)
(*   - fetch_and_create.execute and the node graph it builds;              *)
(*   - the resize step of process_texture, on the 32-bit value of the      *)
(*     multiplier;                                                         *)
(*   - the thumbnail prefetch of fetch_browser_materials.execute and its   *)
(*     pool of download_preview workers.                                   *)
(***************************************************************************)
EXTENDS Integers, Sequences, FiniteSets, TLC

VARIABLES
    \* ---- scene properties of the browser (register, lines 614-648)
    ambientcg_search_query,
    ambientcg_browser_offset,
    ambientcg_browser_total,
    ambientcg_current_page,
    ambientcg_total_pages,
    ambientcg_goto_page,
    \* ---- module global (line 47)
    updating_page,
    \* ---- the main thread's call stack of running handlers
    stack,
    \* ---- observations of the current user event (not program state)
    event,          \* what the user did last, and the state it met
    fetches,        \* HTTP search requests issued since the event began
    clamps,         \* runs of the clamp-and-refetch body since the event began
    request,        \* the last search request sent
    last_result,    \* what the last finished fetch_browser_materials returned
    \* ---- the scene properties the material and texture operators read
    \* (register, lines 563-613)
    scene,
    \* ---- the file system and the host's data the texture code reads
    files,          \* names of the files on disk
    dirs,           \* directories that exist
    images,         \* filepaths of the images loaded in the host (bpy.data.images)
    blend_saved,    \* bpy.data.filepath is set (the .blend file has a location)
    \* ---- observations of the texture operations (not program state)
    op,             \* the last operation: its inputs, effects and result
    done,           \* the process_texture calls that have returned
    ops,            \* operations run so far
    \* ---- the thumbnail prefetch of fetch_browser_materials (lines 383-398)
    page_assets,    \* assets of the answered page that have a preview URL
    thumbs,         \* their files in {cache}/previews: whole and truncated ones
    tpc,            \* where the operator is: "idle", "pool" or "pages"
    pending,        \* download_preview calls submitted and not yet started
    active,         \* download_preview calls running in a worker thread
    prefetch,       \* observations of the current fetch (not program state)
    tfetches        \* fetches started so far

pageVars == <<ambientcg_search_query, ambientcg_browser_offset,
              ambientcg_browser_total, ambientcg_current_page,
              ambientcg_total_pages, ambientcg_goto_page, updating_page,
              stack, event, fetches, clamps, request, last_result>>

fileVars == <<scene, files, dirs, images, blend_saved, op, done, ops>>

thumbVars == <<page_assets, thumbs, tpc, pending, active, prefetch, tfetches>>

vars == <<pageVars, fileVars, thumbVars>>

----------------------------------------------------------------------------
(* Bounds of the model *)

\* largest result count the remote search endpoint reports
MaxTotal == 105
\* largest page number a user types into the page field
MaxGoto == 5

\* number of texture operations in one run of the model
MaxOps == 3
\* number of renames that fail in one cleanup pass
MaxFail == 1

\* the search strings a user types
Queries == {"", "rock"}

----------------------------------------------------------------------------
(* Program constants and pure helpers *)

MATERIALS_PER_PAGE == 40

Max(a, b) == IF a >= b THEN a ELSE b
Min(a, b) == IF a <= b THEN a ELSE b

\* IntProperty(min=1) of ambientcg_goto_page: the host stores an assigned
\* value clamped to the property's hard minimum.
GotoPageStore(v) == IF v < 1 THEN 1 ELSE v

\* on_page_change, lines 334-339: the page the handler settles on.
ClampPageMutNoUpper(page, total_pages) == IF page < 1 THEN 1 ELSE page
ClampPage(page, total_pages) ==
    IF page < 1 THEN 1
    ELSE IF total_pages > 0 /\ page > total_pages THEN total_pages
    ELSE page

\* on_page_change, line 340.
PageOffset(page) == (page - 1) * MATERIALS_PER_PAGE

\* on_page_change, lines 329-330: does the guard make the handler return?
GuardBlocksMutNever(flag) == FALSE
GuardBlocks(flag) == flag

\* fetch_browser_materials.execute, line 359: the value the guard is given
\* around the reset of the page field.
ResetGuardMutUnset == FALSE
ResetGuard == TRUE

\* fetch_browser_materials.execute, line 401.
CurrentPageOf(offset) == (offset \div MATERIALS_PER_PAGE) + 1

\* fetch_browser_materials.execute, line 402.
TotalPagesOfMutNoFloor(total) ==
    (total + MATERIALS_PER_PAGE - 1) \div MATERIALS_PER_PAGE
TotalPagesOf(total) ==
    Max(1, (total + MATERIALS_PER_PAGE - 1) \div MATERIALS_PER_PAGE)

----------------------------------------------------------------------------
(* Call stack.  The top frame is the last element.                         *)

Frame(fn, pc, reset, offset) ==
    [fn |-> fn, pc |-> pc, reset |-> reset, offset |-> offset]

Top == stack[Len(stack)]
Pop == SubSeq(stack, 1, Len(stack) - 1)
SetTopPc(pc) == [stack EXCEPT ![Len(stack)].pc = pc]
Running(fn, pc) == stack # <<>> /\ Top.fn = fn /\ Top.pc = pc
Idle == stack = <<>>

NoEvent == [kind |-> "none", g |-> 0, T |-> 0, page0 |-> 0]
NoRequest == [offset |-> -1, q |-> ""]

----------------------------------------------------------------------------
(* Initial state: the property defaults of register(), lines 614-648.      *)

PageDefaults ==
    /\ ambientcg_search_query = ""
    /\ ambientcg_browser_offset = 0
    /\ ambientcg_browser_total = 0
    /\ ambientcg_current_page = 1
    /\ ambientcg_total_pages = 1
    /\ ambientcg_goto_page = 1
    /\ updating_page = FALSE
    /\ stack = <<>>
    /\ event = NoEvent
    /\ fetches = 0
    /\ clamps = 0
    /\ request = NoRequest
    /\ last_result = "NONE"

NoTasks == [cached |-> 0, fresh |-> 0]

NoObservation ==
    [response |-> FALSE, cached0 |-> 0, skipped |-> 0, ok |-> 0, failed |-> 0,
     redone |-> 0, unfinished |-> 0]

\* no page was answered yet and the preview cache is empty
NoPrefetch ==
    /\ page_assets = 0
    /\ thumbs = [whole |-> 0, partial |-> 0]
    /\ tpc = "idle"
    /\ pending = NoTasks
    /\ active = NoTasks
    /\ prefetch = NoObservation
    /\ tfetches = 0

----------------------------------------------------------------------------
(* User events, possible only while no handler runs (one main thread).     *)

\* The user types into the search field (panel draw, line 484); the
\* property has no update callback (lines 614-618).
EditQuery ==
    /\ Idle
    /\ UNCHANGED <<fileVars, thumbVars>>
    /\ \E q \in Queries :
          /\ q # ambientcg_search_query
          /\ ambientcg_search_query' = q
    /\ UNCHANGED <<ambientcg_browser_offset, ambientcg_browser_total,
                   ambientcg_current_page, ambientcg_total_pages,
                   ambientcg_goto_page, updating_page, stack, event, fetches,
                   clamps, request, last_result>>

\* The user presses Search: the operator runs with reset_to_first_page set
\* (panel draw, line 485).
Search ==
    /\ Idle
    /\ UNCHANGED <<fileVars, thumbVars>>
    /\ stack' = <<Frame("fetch", "reset", TRUE, 0)>>
    /\ event' = [kind |-> "search", g |-> 0, T |-> ambientcg_total_pages,
                 page0 |-> ambientcg_current_page]
    /\ fetches' = 0
    /\ clamps' = 0
    /\ request' = NoRequest
    /\ last_result' = "NONE"
    /\ UNCHANGED <<ambientcg_search_query, ambientcg_browser_offset,
                   ambientcg_browser_total, ambientcg_current_page,
                   ambientcg_total_pages, ambientcg_goto_page, updating_page>>

\* The user edits the page field (panel draw, line 494): the host stores
\* the value and calls the property's update callback (line 647).
EditPage ==
    /\ Idle
    /\ UNCHANGED <<fileVars, thumbVars>>
    /\ \E g \in 0..MaxGoto :
          /\ ambientcg_goto_page' = GotoPageStore(g)
          /\ event' = [kind |-> "page", g |-> g, T |-> ambientcg_total_pages,
                       page0 |-> ambientcg_current_page]
    /\ stack' = <<Frame("on_page_change", "enter", FALSE, 0)>>
    /\ fetches' = 0
    /\ clamps' = 0
    /\ request' = NoRequest
    /\ last_result' = "NONE"
    /\ UNCHANGED <<ambientcg_search_query, ambientcg_browser_offset,
                   ambientcg_browser_total, ambientcg_current_page,
                   ambientcg_total_pages, updating_page>>

----------------------------------------------------------------------------
(* on_page_change, lines 327-343                                           *)

\* lines 328-332: return at once under the guard, else take it.
PageChangeEnter ==
    /\ Running("on_page_change", "enter")
    /\ UNCHANGED <<fileVars, thumbVars>>
    /\ IF GuardBlocks(updating_page)
          THEN /\ stack' = Pop
               /\ UNCHANGED updating_page
          ELSE /\ updating_page' = TRUE
               /\ stack' = SetTopPc("clamp")
    /\ UNCHANGED <<ambientcg_search_query, ambientcg_browser_offset,
                   ambientcg_browser_total, ambientcg_current_page,
                   ambientcg_total_pages, ambientcg_goto_page, event, fetches,
                   clamps, request, last_result>>

\* lines 334-340: clamp the requested page and store the offset.
PageChangeClamp ==
    /\ Running("on_page_change", "clamp")
    /\ UNCHANGED <<fileVars, thumbVars>>
    /\ ambientcg_browser_offset' =
          PageOffset(ClampPage(ambientcg_goto_page, ambientcg_total_pages))
    /\ clamps' = clamps + 1
    /\ stack' = SetTopPc("call")
    /\ UNCHANGED <<ambientcg_search_query, ambientcg_browser_total,
                   ambientcg_current_page, ambientcg_total_pages,
                   ambientcg_goto_page, updating_page, event, fetches,
                   request, last_result>>

\* line 341: bpy.ops.material.fetch_browser_materials(), reset_to_first_page
\* at its default False.
PageChangeCall ==
    /\ Running("on_page_change", "call")
    /\ UNCHANGED <<fileVars, thumbVars>>
    /\ stack' = Append(SetTopPc("finally"), Frame("fetch", "reset", FALSE, 0))
    /\ UNCHANGED <<ambientcg_search_query, ambientcg_browser_offset,
                   ambientcg_browser_total, ambientcg_current_page,
                   ambientcg_total_pages, ambientcg_goto_page, updating_page,
                   event, fetches, clamps, request, last_result>>

\* lines 342-343: the finally clause, reached whether the operator call
\* returned or raised.
PageChangeFinally ==
    /\ Running("on_page_change", "finally")
    /\ UNCHANGED <<fileVars, thumbVars>>
    /\ updating_page' = FALSE
    /\ stack' = Pop
    /\ UNCHANGED <<ambientcg_search_query, ambientcg_browser_offset,
                   ambientcg_browser_total, ambientcg_current_page,
                   ambientcg_total_pages, ambientcg_goto_page, event, fetches,
                   clamps, request, last_result>>

----------------------------------------------------------------------------
(* MATERIAL_OT_fetch_browser_materials.execute, lines 354-417              *)

\* lines 357-359: a search resets the offset and takes the guard.
FetchReset ==
    /\ Running("fetch", "reset")
    /\ UNCHANGED <<fileVars, thumbVars>>
    /\ IF Top.reset
          THEN /\ ambientcg_browser_offset' = 0
               /\ updating_page' = ResetGuard
               /\ stack' = SetTopPc("reset_write")
          ELSE /\ stack' = SetTopPc("request")
               /\ UNCHANGED <<ambientcg_browser_offset, updating_page>>
    /\ UNCHANGED <<ambientcg_search_query, ambientcg_browser_total,
                   ambientcg_current_page, ambientcg_total_pages,
                   ambientcg_goto_page, event, fetches, clamps, request,
                   last_result>>

\* line 361: the assignment to the page field runs its update callback.
FetchResetWrite ==
    /\ Running("fetch", "reset_write")
    /\ UNCHANGED <<fileVars, thumbVars>>
    /\ ambientcg_goto_page' = GotoPageStore(1)
    /\ stack' = Append(SetTopPc("reset_finally"),
                       Frame("on_page_change", "enter", FALSE, 0))
    /\ UNCHANGED <<ambientcg_search_query, ambientcg_browser_offset,
                   ambientcg_browser_total, ambientcg_current_page,
                   ambientcg_total_pages, updating_page, event, fetches,
                   clamps, request, last_result>>

\* lines 362-363.
FetchResetFinally ==
    /\ Running("fetch", "reset_finally")
    /\ UNCHANGED <<fileVars, thumbVars>>
    /\ updating_page' = FALSE
    /\ stack' = SetTopPc("request")
    /\ UNCHANGED <<ambientcg_search_query, ambientcg_browser_offset,
                   ambientcg_browser_total, ambientcg_current_page,
                   ambientcg_total_pages, ambientcg_goto_page, event, fetches,
                   clamps, request, last_result>>

\* lines 365-381 and 415-417: read query and offset, send the request; the
\* request or the parse of its answer raises (the operator reports an error
\* and returns CANCELLED), or the answer carries numberOfResults = t.  The
\* thumbnail prefetch that follows (lines 383-398) touches no page field;
\* it is modelled on its own below (ThumbFetch).
FetchRequest ==
    /\ Running("fetch", "request")
    /\ UNCHANGED <<fileVars, thumbVars>>
    /\ request' = [offset |-> ambientcg_browser_offset,
                   q |-> ambientcg_search_query]
    /\ fetches' = fetches + 1
    /\ \/ /\ last_result' = "CANCELLED"
          /\ stack' = Pop
          /\ UNCHANGED ambientcg_browser_total
       \/ \E t \in 0..MaxTotal :
             /\ ambientcg_browser_total' = t
             /\ stack' = [stack EXCEPT
                            ![Len(stack)].pc = "pages",
                            ![Len(stack)].offset = ambientcg_browser_offset]
             /\ UNCHANGED last_result
    /\ UNCHANGED <<ambientcg_search_query, ambientcg_browser_offset,
                   ambientcg_current_page, ambientcg_total_pages,
                   ambientcg_goto_page, updating_page, event, clamps>>

\* lines 400-406: derive the page numbers from the local offset and the
\* stored total, then take the guard.
FetchPages ==
    /\ Running("fetch", "pages")
    /\ UNCHANGED <<fileVars, thumbVars>>
    /\ ambientcg_current_page' = CurrentPageOf(Top.offset)
    /\ ambientcg_total_pages' = TotalPagesOf(ambientcg_browser_total)
    /\ updating_page' = TRUE
    /\ stack' = SetTopPc("goto_write")
    /\ UNCHANGED <<ambientcg_search_query, ambientcg_browser_offset,
                   ambientcg_browser_total, ambientcg_goto_page, event,
                   fetches, clamps, request, last_result>>

\* line 408: the assignment to the page field runs its update callback.
FetchGotoWrite ==
    /\ Running("fetch", "goto_write")
    /\ UNCHANGED <<fileVars, thumbVars>>
    /\ ambientcg_goto_page' = GotoPageStore(ambientcg_current_page)
    /\ stack' = Append(SetTopPc("goto_finally"),
                       Frame("on_page_change", "enter", FALSE, 0))
    /\ UNCHANGED <<ambientcg_search_query, ambientcg_browser_offset,
                   ambientcg_browser_total, ambientcg_current_page,
                   ambientcg_total_pages, updating_page, event, fetches,
                   clamps, request, last_result>>

\* lines 409-413.
FetchGotoFinally ==
    /\ Running("fetch", "goto_finally")
    /\ UNCHANGED <<fileVars, thumbVars>>
    /\ updating_page' = FALSE
    /\ last_result' = "FINISHED"
    /\ stack' = Pop
    /\ UNCHANGED <<ambientcg_search_query, ambientcg_browser_offset,
                   ambientcg_browser_total, ambientcg_current_page,
                   ambientcg_total_pages, ambientcg_goto_page, event, fetches,
                   clamps, request>>

----------------------------------------------------------------------------
(* Texture files.                                                          *)
(*                                                                         *)
(* A path names a file without the ".unused" suffix: the directory it is   *)
(* in, the material, the channel token of its name, and whether it is a    *)
(* channel texture extracted from the archive ("{id}_{res}_{Channel}.png") *)
(* or a processed texture ("{material}_{Channel}_{scale:.2f}.png", its     *)
(* s100 the number the name shows, in hundredths).  A file on disk is a    *)
(* path with or without the suffix.                                        *)

\* the channel suffixes execute tests for, lines 215-264
Channels == {"Color", "Metalness", "Roughness", "NormalGL", "Displacement"}

\* the one material of the model (default of ambientcg_material_name,
\* line 550)
Material == "Rock035"

\* resize multipliers, in thousandths, within the property's range
\* 0.01..4.0 (lines 593-598).  None ends in 5: how "{:.2f}" rounds such a
\* value depends on the binary value of the 32-bit property.
Scales == {500, 1000}

\* directories: the cache entry {cache}/{material}_{resolution}, and one
\* other folder a user may name as custom folder
Folders == {"extract", "out"}

\* channels whose extracted textures process_texture is called on directly
TexChannels == {"Color", "Roughness"}

SrcPath(ch) ==
    [dir |-> "extract", mat |-> Material, ch |-> ch, kind |-> "extracted",
     s100 |-> 0]

FileName(p, u) == [path |-> p, unused |-> u]

\* Path.exists(), lines 97 and 117
Exists(fs, p) == FileName(p, FALSE) \in fs

\* The multiplier is a FloatProperty (lines 593-598): the host stores it as
\* a 32-bit float and hands Python that value.  For a multiplier typed as
\* k thousandths, F32(k) is the stored value m / 2^s, m a 24-bit
\* significand (round to nearest, ties to even), and dir tells whether the
\* stored value is above (1), below (-1) or equal to (0) k / 1000.
RECURSIVE Doublings(_, _)
Doublings(x, limit) == IF x >= limit THEN 0 ELSE 1 + Doublings(2 * x, limit)

RECURSIVE Halvings(_, _)
Halvings(x, limit) == IF x < 2 * limit THEN 0 ELSE 1 + Halvings(x, 2 * limit)

RECURSIVE Bits(_, _, _, _)
Bits(m, rem, den, n) ==
    IF n = 0 THEN [m |-> m, rem |-> rem]
    ELSE IF 2 * rem >= den THEN Bits(2 * m + 1, 2 * rem - den, den, n - 1)
    ELSE Bits(2 * m, 2 * rem, den, n - 1)

\* the direction of the rounding of a significand m with remainder rem / den
RoundDir(m, rem, den) ==
    IF rem = 0 THEN 0
    ELSE IF 2 * rem > den \/ (2 * rem = den /\ m % 2 = 1) THEN 1
    ELSE -1

Packed(m, dir, s) ==
    IF dir > 0 /\ m + 1 = 2^24
       THEN [m |-> 2^23, s |-> s - 1, dir |-> dir]
       ELSE [m |-> IF dir > 0 THEN m + 1 ELSE m, s |-> s, dir |-> dir]

Rounded24(b, den, s) == Packed(b.m, RoundDir(b.m, b.rem, den), s)

\* k / 1000 = (k * 2^u) / (1000 * 2^d) * 2^(d - u), the quotient in [1, 2)
Normalised(k, u, d) ==
    Rounded24(Bits(1, k * 2^u - 1000 * 2^d, 1000 * 2^d, 23), 1000 * 2^d,
              23 - (d - u))

F32(k) == Normalised(k, Doublings(k, 1000), Halvings(k, 1000))

\* f"{resize_multiplier:.2f}", line 112, as hundredths: the stored value
\* rounded to two decimals.  A multiplier typed with a third decimal of 5
\* goes the way the stored value lies; one stored exactly goes to the even
\* neighbour.
TieName(h, dir) ==
    IF dir > 0 THEN h + 1
    ELSE IF dir < 0 THEN h
    ELSE IF h % 2 = 0 THEN h ELSE h + 1

ScaleName(scale) ==
    IF scale % 10 < 5 THEN scale \div 10
    ELSE IF scale % 10 > 5 THEN (scale \div 10) + 1
    ELSE TieName(scale \div 10, F32(scale).dir)

\* abs(resize_multiplier - 1.0) > 0.001, line 124, on the stored value
\* m / 2^s: the difference from 1.0 is exact in double arithmetic and is
\* compared with the double nearest to 0.001, which lies a little above it
FarFromOne(m, one) ==
    (IF m >= one THEN m - one ELSE one - m) > one \div 1000

ExceedsEpsilonOf(f) == FarFromOne(f.m, 2^f.s)

ExceedsEpsilon(scale) == ExceedsEpsilonOf(F32(scale))

\* the same test in closed form (the two agree on every multiplier of three
\* decimals in 0.01..4.0, see EpsilonClosedForm): 0.999 is stored within
\* 0.001 of 1.0, 1.001 is stored above 1.001
NeedsScale(scale) == scale < 999 \/ scale > 1000

\* round(dim * scale), to the nearest integer, halves to the even one
NewSizeMutRound(dim, scale) ==
    LET q == (dim * scale) \div 1000
        r == (dim * scale) % 1000
    IN IF r > 500 \/ (r = 500 /\ q % 2 = 1) THEN q + 1 ELSE q

\* int(temp_image.size[i] * resize_multiplier), lines 121-122: the product
\* of the dimension and the stored value is exact in double arithmetic, and
\* int() drops its fraction
Product(dim, hi, lo, s) ==
    (dim * hi + (dim * lo) \div 4096) \div 2^(s - 12)

ProductOf(dim, f) == Product(dim, f.m \div 4096, f.m % 4096, f.s)

NewSize(dim, scale) == ProductOf(dim, F32(scale))

\* source_path.stem.split('_')[-1], line 111
texture_type(source_path) == source_path.ch

\* lines 112-113
OutputPath(source_path, output_folder, resize_multiplier, material_name) ==
    [dir |-> output_folder, mat |-> material_name,
     ch |-> texture_type(source_path), kind |-> "processed",
     s100 |-> ScaleName(resize_multiplier)]

\* get_texture_path, lines 51-53: the string handed to the host, relative
\* to the .blend file ("//...") only if asked for and the file has a
\* location
get_texture_path(path, use_relative) ==
    [path |-> path, rel |-> use_relative /\ blend_saved]

\* bpy.path.abspath and Path.resolve, lines 439-440
Resolved(filepath) == filepath.path

\* restore_unused_texture, lines 93-100: the files afterwards
restore_unused_textureMutNoop(fs, file_path) == fs
restore_unused_texture(fs, file_path) ==
    IF FileName(file_path, TRUE) \in fs
       THEN (fs \ {FileName(file_path, TRUE)}) \cup {FileName(file_path, FALSE)}
       ELSE fs

\* process_texture, line 117: is the destination taken as already done?
DestinationCachedMutNever(fs, output_path) == FALSE
DestinationCached(fs, output_path) == Exists(fs, output_path)

Access(what, p) == [what |-> what, path |-> p]

\* process_texture, lines 108-132: the files afterwards, the value
\* returned, whether the call raised (images.load of a missing source) and
\* the file accesses it made, in order.
process_texture(fs, source_path, output_folder, resize_multiplier, use_relative_paths, material_name) ==
    LET fs1 == restore_unused_texture(fs, source_path)
        output_path == OutputPath(source_path, output_folder,
                                  resize_multiplier, material_name)
        fs2 == restore_unused_texture(fs1, output_path)
        log2 == <<Access("restore", source_path),
                  Access("restore", output_path),
                  Access("exists", output_path)>>
        ret == get_texture_path(output_path, use_relative_paths)
    IN  IF DestinationCached(fs2, output_path)
           THEN [fs |-> fs2, ret |-> ret, raised |-> FALSE, log |-> log2,
                 dst |-> output_path]
        ELSE IF ~Exists(fs2, source_path)
           THEN [fs |-> fs2, ret |-> ret, raised |-> TRUE,
                 log |-> Append(log2, Access("load", source_path)),
                 dst |-> output_path]
        ELSE [fs |-> fs2 \cup {FileName(output_path, FALSE)},
              ret |-> ret, raised |-> FALSE,
              log |-> log2 \o <<Access("load", source_path)>>
                           \o (IF NeedsScale(resize_multiplier)
                                  THEN <<Access("scale", source_path)>>
                                  ELSE <<>>)
                           \o <<Access("save", output_path),
                                Access("remove", source_path)>>,
              dst |-> output_path]

\* Path.rglob("*.png") under a folder, line 443: the names found
Globbed(fs, folder) == {n \in fs : n.path.dir = folder /\ ~n.unused}

NoMark == [before |-> {}, renamed |-> {}]
NoOp == [kind |-> "none"]

\* the mark that ran just before this operation, if one did
LastMark ==
    IF op.kind = "mark" /\ op.result = "FINISHED"
       THEN [before |-> op.before, renamed |-> op.renamed]
       ELSE NoMark

\* the property defaults of register(), lines 563-613; multiplier in
\* thousandths, scalar defaults in hundredths
SceneDefaults ==
    [use |-> [ch \in Channels |-> TRUE],
     default_metallic |-> 50,
     default_roughness |-> 50,
     use_custom_folder |-> FALSE,
     custom_folder |-> "",
     use_relative_paths |-> FALSE,
     resize_multiplier |-> 1000,
     use_backface_culling |-> FALSE]

\* what a user may have set the custom-folder toggle and path to
CustomConfigs ==
    {<<FALSE, "out">>, <<TRUE, "">>, <<TRUE, "out">>, <<TRUE, "extract">>}

FilesAtRest ==
    /\ scene = SceneDefaults
    /\ files = {}
    /\ dirs = {}
    /\ images = {}
    /\ blend_saved = FALSE
    /\ op = NoOp
    /\ done = {}
    /\ ops = 0

----------------------------------------------------------------------------
(* Texture operations                                                      *)

\* MATERIAL_OT_mark_unused_textures.execute, lines 426-456, as a whole.
\* A rename may raise; the handler prints and goes on (lines 452-453).
MarkUnused ==
    /\ ops < MaxOps
    /\ ops' = ops + 1
    /\ LET use_custom == scene.use_custom_folder
           folder == scene.custom_folder
       IN IF ~use_custom \/ folder = "" \/ folder \notin dirs
             THEN /\ op' = [kind |-> "mark", use_custom |-> use_custom,
                            folder |-> folder, result |-> "CANCELLED",
                            F |-> {}, L |-> {}, renamed |-> {}, count |-> 0,
                            before |-> files]
                  /\ UNCHANGED files
             ELSE LET loaded_images == {Resolved(img) : img \in images}
                      found == {n \in Globbed(files, folder) : n.unused = FALSE}
                      unused == {n \in found : n.path \notin loaded_images}
                  IN \E failed \in SUBSET unused :
                        LET renamed == unused \ failed IN
                        /\ Cardinality(failed) <= MaxFail
                        /\ files' = (files \ renamed) \cup
                                    {FileName(n.path, TRUE) : n \in renamed}
                        /\ op' = [kind |-> "mark", use_custom |-> use_custom,
                                  folder |-> folder, result |-> "FINISHED",
                                  F |-> {n.path : n \in found},
                                  L |-> loaded_images,
                                  renamed |-> {n.path : n \in renamed},
                                  count |-> Cardinality(renamed),
                                  before |-> files]
    /\ UNCHANGED <<scene, dirs, images, blend_saved, done>>
    /\ UNCHANGED <<pageVars, thumbVars>>

\* A call of process_texture (lines 108-132) on an extracted texture, with
\* an output folder that exists, as execute guarantees (lines 148-152).
ProcessTexture ==
    /\ ops < MaxOps
    /\ ops' = ops + 1
    /\ \E ch \in TexChannels, folder \in Folders \cap dirs, scale \in Scales,
          rel \in BOOLEAN :
          LET r == process_texture(files, SrcPath(ch), folder, scale, rel,
                                   Material)
              args == [src |-> SrcPath(ch), folder |-> folder,
                       scale |-> scale, mat |-> Material]
          IN /\ files' = r.fs
             /\ op' = [kind |-> "process", args |-> args, rel |-> rel,
                       saved |-> blend_saved, ret |-> r.ret,
                       raised |-> r.raised, log |-> r.log, dst |-> r.dst,
                       before |-> files, mark |-> LastMark,
                       earlier |-> {d \in done : d.args = args}]
             /\ done' = IF r.raised THEN done
                        ELSE done \cup {[args |-> args, rel |-> rel,
                                         saved |-> blend_saved,
                                         ret |-> r.ret]}
    /\ UNCHANGED <<scene, dirs, images, blend_saved>>
    /\ UNCHANGED <<pageVars, thumbVars>>

\* The user loads an image file into the host by other means: it becomes
\* one of bpy.data.images (read at lines 437-440).
LoadImage ==
    /\ ops < MaxOps
    /\ ops' = ops + 1
    /\ \E n \in files :
          /\ ~n.unused
          /\ [path |-> n.path, rel |-> FALSE] \notin images
          /\ images' = images \cup {[path |-> n.path, rel |-> FALSE]}
          /\ op' = [kind |-> "load", path |-> n.path]
    /\ UNCHANGED <<scene, files, dirs, blend_saved, done>>
    /\ UNCHANGED <<pageVars, thumbVars>>

\* The user saves the .blend file: bpy.data.filepath (read at line 53) is
\* set from then on.
SaveBlend ==
    /\ ops < MaxOps
    /\ ops' = ops + 1
    /\ ~blend_saved
    /\ blend_saved' = TRUE
    /\ op' = [kind |-> "save_blend"]
    /\ UNCHANGED <<scene, files, dirs, images, done>>
    /\ UNCHANGED <<pageVars, thumbVars>>

\* The cache entry holds its extracted textures, none flagged; the other
\* folder may not exist yet; nothing was loaded or processed.
InitTex ==
    /\ PageDefaults
    /\ NoPrefetch
    /\ \E c \in CustomConfigs :
          scene = [SceneDefaults EXCEPT !.use_custom_folder = c[1],
                                       !.custom_folder = c[2]]
    /\ files = {FileName(SrcPath(ch), FALSE) : ch \in TexChannels}
    /\ dirs \in {{"extract"}, {"extract", "out"}}
    /\ images = {}
    /\ blend_saved \in BOOLEAN
    /\ op = NoOp
    /\ done = {}
    /\ ops = 0

NextTex ==
    \/ MarkUnused
    \/ ProcessTexture
    \/ LoadImage
    \/ SaveBlend

SpecTex == InitTex /\ [][NextTex]_vars

----------------------------------------------------------------------------
(* The resize step of process_texture, lines 120-130                       *)

\* every multiplier a user can type with three decimals within the
\* property's range 0.01..4.0 (lines 596-597), in thousandths
ScaleMin == 10
ScaleMax == 4000
ScaleGrid == ScaleMin..ScaleMax

\* widths and heights of the source image
Dims == {3, 100, 1024}

\* Image.scale(width, height), line 125: the host takes each argument no
\* lower than the parameter's minimum of 1
HostSize(x) == Max(1, x)

\* A call of process_texture (lines 108-132) on the extracted Color texture
\* with the scene's multiplier and the cache entry as output folder (no
\* custom folder, line 152); size is what the loaded source image measures
\* (line 120).
ResizeTexture ==
    /\ ops < MaxOps
    /\ ops' = ops + 1
    /\ LET scale == scene.resize_multiplier
           src == SrcPath("Color")
           r == process_texture(files, src, "extract", scale,
                                scene.use_relative_paths, Material)
           cached == DestinationCached(
                        restore_unused_texture(
                           restore_unused_texture(files, src), r.dst), r.dst)
       IN /\ files' = r.fs
          /\ IF cached \/ r.raised
                THEN op' = [kind |-> "resize", scale |-> scale,
                            loaded |-> FALSE, raised |-> r.raised]
                ELSE \E w \in Dims, h \in Dims :
                        LET new_width == NewSize(w, scale)
                            new_height == NewSize(h, scale)
                            scaled == ExceedsEpsilon(scale)
                        IN op' = [kind |-> "resize", scale |-> scale,
                                  loaded |-> TRUE, raised |-> FALSE,
                                  size |-> <<w, h>>,
                                  target |-> <<new_width, new_height>>,
                                  scaled |-> scaled,
                                  written |->
                                     IF scaled
                                        THEN <<HostSize(new_width),
                                               HostSize(new_height)>>
                                        ELSE <<w, h>>]
    /\ UNCHANGED <<scene, dirs, images, blend_saved, done>>
    /\ UNCHANGED <<pageVars, thumbVars>>

\* The cache entry holds the extracted Color texture and no processed one;
\* the user has typed a multiplier.
InitResize ==
    /\ PageDefaults
    /\ NoPrefetch
    /\ \E k \in ScaleGrid :
          scene = [SceneDefaults EXCEPT !.resize_multiplier = k]
    /\ files = {FileName(SrcPath("Color"), FALSE)}
    /\ dirs = {"extract"}
    /\ images = {}
    /\ blend_saved = FALSE
    /\ op = NoOp
    /\ done = {}
    /\ ops = 0

NextResize == ResizeTexture

SpecResize == InitResize /\ [][NextResize]_vars

----------------------------------------------------------------------------
(* MATERIAL_OT_fetch_and_create.execute, lines 134-295                     *)

\* the order in which the loop's results are accumulated here; os.listdir
\* gives the files in some order, and the branches of different channels
\* touch different files and nodes
ChannelOrder ==
    <<"Color", "Metalness", "Roughness", "NormalGL", "Displacement">>

\* the channel textures an archive of the remote catalog may hold, in the
\* order of its members: all five maps, or all but the metalness map
Archives ==
    {<<"Color", "Displacement", "Metalness", "NormalGL", "Roughness">>,
     <<"Color", "Displacement", "NormalGL", "Roughness">>}

\* the scalar fallbacks a user may have set for Metallic and Roughness, in
\* hundredths: the registered defaults, or 0.3 and 0.7
DefaultPairs == {<<50, 50>>, <<30, 70>>}

\* lines 215, 226, 237, 250, 264: file.endswith("_{Channel}.png") for a
\* name os.listdir(extract_path) gave
Listed(fs, ch) == FileName(SrcPath(ch), FALSE) \in fs

\* the second half of the same conditions: the channel's toggle
ChannelTakenMutAlways(use, ch) == TRUE
ChannelTaken(use, ch) == use[ch]

\* the input each channel's image node ends up feeding (lines 224, 235,
\* 246-248, 261-262, 275-281)
TargetInput(ch) ==
    CASE ch = "Color" -> "Base Color"
      [] ch = "Metalness" -> "Metallic"
      [] ch = "Roughness" -> "Roughness"
      [] ch = "NormalGL" -> "Normal"
      [] ch = "Displacement" -> "Displacement"

\* lines 148-152: the folder processed textures are written to
OutputFolder(sc) ==
    IF sc.use_custom_folder /\ sc.custom_folder # ""
       THEN sc.custom_folder
       ELSE "extract"

\* lines 213-282: the loop over the listed files, channel by channel.
\* acc holds the files, the loaded images, and the channels that got an
\* image node (each linked to its input).
RECURSIVE BuildChannels(_, _, _, _, _)
BuildChannels(i, listing, sc, output_folder, acc) ==
    IF i > Len(ChannelOrder) THEN acc
    ELSE LET ch == ChannelOrder[i] IN
         IF Listed(listing, ch) /\ ChannelTaken(sc.use, ch)
            THEN LET r == process_texture(acc.fs, SrcPath(ch), output_folder,
                                          sc.resize_multiplier,
                                          sc.use_relative_paths, Material)
                 IN BuildChannels(i + 1, listing, sc, output_folder,
                       [fs |-> r.fs,
                        images |-> acc.images \cup {r.ret},
                        nodes |-> acc.nodes \cup {ch},
                        links |-> acc.links \cup
                                  {[from |-> ch, to |-> TargetInput(ch)]}])
            ELSE BuildChannels(i + 1, listing, sc, output_folder, acc)

\* lines 284-287: the scalar written to an input, if any
ScalarFor(enabled, value) ==
    IF ~enabled THEN [written |-> TRUE, value |-> value]
    ELSE [written |-> FALSE, value |-> 0]

\* what one run of execute did: its result, whether the archive was fetched
\* and unpacked, the graph it built, and what was on disk when it started
\* (entry_before: did the cache entry exist when the operator was invoked)
CreateOp(result, downloaded, extracted, nodes, links, metallic, roughness, culling, before) ==
    [kind |-> "create", result |-> result, downloaded |-> downloaded,
     extracted |-> extracted, nodes |-> nodes, links |-> links,
     metallic |-> metallic, roughness |-> roughness, culling |-> culling,
     use |-> scene.use, before |-> before,
     entry_before |-> "extract" \in dirs]

NoScalar == [written |-> FALSE, value |-> 0]

\* lines 188-295: the material is built from what the cache entry holds
BuildMaterial(fs, ds, downloaded) ==
    LET acc == BuildChannels(1, fs, scene, OutputFolder(scene),
                             [fs |-> fs, images |-> images, nodes |-> {},
                              links |-> {}])
    IN /\ files' = acc.fs
       /\ dirs' = ds
       /\ images' = acc.images
       /\ op' = CreateOp("FINISHED", downloaded, downloaded, acc.nodes,
                         acc.links,
                         ScalarFor(scene.use["Metalness"],
                                   scene.default_metallic),
                         ScalarFor(scene.use["Roughness"],
                                   scene.default_roughness),
                         scene.use_backface_culling, files)

\* the whole handler
FetchAndCreate ==
    /\ ops < MaxOps
    /\ ops' = ops + 1
    /\ LET dirs1 == IF scene.use_custom_folder /\ scene.custom_folder # ""
                       THEN dirs \cup {scene.custom_folder}    \* line 150
                       ELSE dirs
       IN IF "extract" \in dirs1
             THEN BuildMaterial(files, dirs1, FALSE)           \* lines 183-186
             ELSE \/ \* the download raises, lines 169-173
                     /\ files' = files
                     /\ dirs' = dirs1
                     /\ images' = images
                     /\ op' = CreateOp("CANCELLED", FALSE, FALSE, {}, {},
                                       NoScalar, NoScalar, FALSE, files)
                  \/ \* the archive cannot be opened, lines 176-182
                     /\ files' = files
                     /\ dirs' = dirs1
                     /\ images' = images
                     /\ op' = CreateOp("CANCELLED", TRUE, FALSE, {}, {},
                                       NoScalar, NoScalar, FALSE, files)
                  \/ \* extraction raises part-way: the first k members
                     \* are on disk, lines 176-182
                     \E a \in Archives : \E k \in 0..Len(a) :
                        /\ files' = files \cup
                              {FileName(SrcPath(a[j]), FALSE) : j \in 1..k}
                        /\ dirs' = dirs1 \cup {"extract"}
                        /\ images' = images
                        /\ op' = CreateOp("CANCELLED", TRUE, FALSE, {}, {},
                                          NoScalar, NoScalar, FALSE, files)
                  \/ \* download and extraction succeed, lines 170-179
                     \E a \in Archives :
                        BuildMaterial(
                           files \cup {FileName(SrcPath(a[j]), FALSE) :
                                          j \in 1..Len(a)},
                           dirs1 \cup {"extract"}, TRUE)
    /\ UNCHANGED <<scene, blend_saved, done>>
    /\ UNCHANGED <<pageVars, thumbVars>>

\* Nothing is cached; the user has set the channel toggles, the scalar
\* fallbacks, the custom folder, the multiplier and the culling toggle.
InitMat ==
    /\ PageDefaults
    /\ NoPrefetch
    /\ \E use \in [Channels -> BOOLEAN], c \in CustomConfigs,
          d \in DefaultPairs, s \in Scales, cull \in BOOLEAN :
          scene = [SceneDefaults EXCEPT !.use = use,
                                       !.use_custom_folder = c[1],
                                       !.custom_folder = c[2],
                                       !.default_metallic = d[1],
                                       !.default_roughness = d[2],
                                       !.resize_multiplier = s,
                                       !.use_backface_culling = cull]
    /\ files = {}
    /\ dirs = {}
    /\ images = {}
    /\ blend_saved = FALSE
    /\ op = NoOp
    /\ done = {}
    /\ ops = 0

NextMat ==
    \/ FetchAndCreate
    \/ MarkUnused

SpecMat == InitMat /\ [][NextMat]_vars

\* A cache entry an earlier session downloaded and extracted in full is on
\* disk, none of its textures flagged; nothing is loaded in this session;
\* the user has set the channel toggles and the custom folder.
InitCache ==
    /\ PageDefaults
    /\ NoPrefetch
    /\ \E use \in [Channels -> BOOLEAN], c \in CustomConfigs :
          scene = [SceneDefaults EXCEPT !.use = use,
                                       !.use_custom_folder = c[1],
                                       !.custom_folder = c[2]]
    /\ \E a \in Archives :
          files = {FileName(SrcPath(a[j]), FALSE) : j \in 1..Len(a)}
    /\ dirs \in {{"extract"}, {"extract", "out"}}
    /\ images = {}
    /\ blend_saved = FALSE
    /\ op = NoOp
    /\ done = {}
    /\ ops = 0

SpecCache == InitCache /\ [][NextMat]_vars

----------------------------------------------------------------------------
(* Thumbnail prefetch: download_preview (lines 62-72) and the worker pool  *)
(* of MATERIAL_OT_fetch_browser_materials.execute (lines 383-398).         *)
(*                                                                         *)
(* The assets of a page have distinct ids, so each download_preview call   *)
(* touches its own file and the calls differ only in whether that file is  *)
(* in the preview cache: the model counts the calls of each kind.  The     *)
(* page shown is the first one; the page arithmetic and the re-entrant     *)
(* callback are modelled statement by statement above.                     *)

\* ThreadPoolExecutor(max_workers=20), line 396
max_workers == 20

\* largest number of assets with a preview URL in one answer
MaxAssets == 21
\* thumbnails in the preview cache before the first fetch
MaxCached == 1
\* fetches in one run of the model
MaxFetches == 2

Count(t) == t.cached + t.fresh

\* the pool runs a submitted call when one of its at most max_workers
\* threads is free, line 396
WorkerFree(running) == running < max_workers

\* download_preview, line 68: download only a file that is not there
ShouldDownload(exists) == ~exists

\* lines 396-397: list(executor.map(...)) and the end of the with block
\* return when every submitted call has returned
PoolJoined(p, a) == Count(p) = 0 /\ Count(a) = 0

\* lines 365-398 up to the submission of the downloads: the request fails
\* (lines 415-417), or it is answered with the page's assets; each asset
\* with a preview URL gives one download_preview call (lines 393-397), and
\* without any the pool is not created (line 395).
ThumbFetch ==
    /\ tpc = "idle"
    /\ tfetches < MaxFetches
    /\ tfetches' = tfetches + 1
    /\ \/ /\ last_result' = "CANCELLED"
          /\ prefetch' = NoObservation
          /\ UNCHANGED <<tpc, pending, ambientcg_browser_total>>
       \/ LET present == thumbs.whole + thumbs.partial IN
          /\ ambientcg_browser_total' = page_assets
          /\ pending' = [cached |-> present, fresh |-> page_assets - present]
          /\ prefetch' = [NoObservation EXCEPT !.response = TRUE,
                                               !.cached0 = present]
          /\ tpc' = IF page_assets > 0 THEN "pool" ELSE "pages"
          /\ last_result' = "NONE"
    /\ UNCHANGED <<page_assets, thumbs, active>>
    /\ UNCHANGED <<ambientcg_search_query, ambientcg_browser_offset,
                   ambientcg_current_page, ambientcg_total_pages,
                   ambientcg_goto_page, updating_page, stack, event, fetches,
                   clamps, request>>
    /\ UNCHANGED fileVars

\* a worker thread takes the next submitted call and runs download_preview
\* up to its existence test, lines 63-68
WorkerStart ==
    /\ tpc = "pool"
    /\ WorkerFree(Count(active))
    /\ \/ /\ pending.cached > 0
          /\ pending' = [pending EXCEPT !.cached = @ - 1]
          /\ active' = [active EXCEPT !.cached = @ + 1]
       \/ /\ pending.fresh > 0
          /\ pending' = [pending EXCEPT !.fresh = @ - 1]
          /\ active' = [active EXCEPT !.fresh = @ + 1]
    /\ UNCHANGED <<page_assets, thumbs, tpc, prefetch, tfetches>>
    /\ UNCHANGED <<pageVars, fileVars>>

\* download_preview on a file that exists, lines 68-70: nothing is
\* downloaded and the call returns True
WorkerReturnCached ==
    /\ active.cached > 0
    /\ active' = [active EXCEPT !.cached = @ - 1]
    /\ prefetch' = IF ShouldDownload(TRUE)
                      THEN [prefetch EXCEPT !.redone = @ + 1]
                      ELSE [prefetch EXCEPT !.skipped = @ + 1]
    /\ UNCHANGED <<page_assets, thumbs, tpc, pending, tfetches>>
    /\ UNCHANGED <<pageVars, fileVars>>

\* download_preview on a missing file, lines 68-72: urlretrieve writes the
\* file and the call returns True; or it raises before it opened the file;
\* or it raises after it wrote part of it (the connection breaks, or the
\* body is shorter than announced) and what it wrote stays on disk.  The
\* exception is caught and the call returns False.
WorkerReturnFresh ==
    /\ active.fresh > 0
    /\ ShouldDownload(FALSE)
    /\ active' = [active EXCEPT !.fresh = @ - 1]
    /\ \/ /\ thumbs' = [thumbs EXCEPT !.whole = @ + 1]
          /\ prefetch' = [prefetch EXCEPT !.ok = @ + 1]
       \/ /\ prefetch.failed < MaxFail
          /\ prefetch' = [prefetch EXCEPT !.failed = @ + 1]
          /\ \/ UNCHANGED thumbs
             \/ thumbs' = [thumbs EXCEPT !.partial = @ + 1]
    /\ UNCHANGED <<page_assets, tpc, pending, tfetches>>
    /\ UNCHANGED <<pageVars, fileVars>>

\* lines 396-397: the operator leaves the with block
PoolJoin ==
    /\ tpc = "pool"
    /\ PoolJoined(pending, active)
    /\ tpc' = "pages"
    /\ UNCHANGED <<page_assets, thumbs, pending, active, prefetch, tfetches>>
    /\ UNCHANGED <<pageVars, fileVars>>

\* lines 400-413: the page fields are set from the offset read at line 366
\* and the stored total (the callback of the page field returns at once
\* under the guard), and the operator returns FINISHED
ThumbPages ==
    /\ tpc = "pages"
    /\ ambientcg_current_page' = CurrentPageOf(ambientcg_browser_offset)
    /\ ambientcg_total_pages' = TotalPagesOf(ambientcg_browser_total)
    /\ ambientcg_goto_page' =
          GotoPageStore(CurrentPageOf(ambientcg_browser_offset))
    /\ last_result' = "FINISHED"
    /\ prefetch' = [prefetch EXCEPT !.unfinished = Count(pending) + Count(active)]
    /\ tpc' = "idle"
    /\ UNCHANGED <<page_assets, thumbs, pending, active, tfetches>>
    /\ UNCHANGED <<ambientcg_search_query, ambientcg_browser_offset,
                   ambientcg_browser_total, updating_page, stack, event,
                   fetches, clamps, request>>
    /\ UNCHANGED fileVars

\* The first page of the catalog has some assets with a preview URL; the
\* thumbnails of a few of them are in the preview cache from an earlier
\* session.
InitThumbs ==
    /\ PageDefaults
    /\ FilesAtRest
    /\ page_assets \in 0..MaxAssets
    /\ \E c \in 0..Min(page_assets, MaxCached) :
          thumbs = [whole |-> c, partial |-> 0]
    /\ tpc = "idle"
    /\ pending = NoTasks
    /\ active = NoTasks
    /\ prefetch = NoObservation
    /\ tfetches = 0

NextThumbs ==
    \/ ThumbFetch
    \/ WorkerStart
    \/ WorkerReturnCached
    \/ WorkerReturnFresh
    \/ PoolJoin
    \/ ThumbPages

SpecThumbs == InitThumbs /\ [][NextThumbs]_vars

----------------------------------------------------------------------------
(* The browser's specification *)

NextPage ==
    \/ EditQuery
    \/ Search
    \/ EditPage
    \/ PageChangeEnter
    \/ PageChangeClamp
    \/ PageChangeCall
    \/ PageChangeFinally
    \/ FetchReset
    \/ FetchResetWrite
    \/ FetchResetFinally
    \/ FetchRequest
    \/ FetchPages
    \/ FetchGotoWrite
    \/ FetchGotoFinally

InitPage == PageDefaults /\ FilesAtRest /\ NoPrefetch

SpecPage == InitPage /\ [][NextPage]_vars

\* the statements of the running handlers; the host runs a handler to its
\* end on the main thread once it has started
HandlerStep ==
    \/ PageChangeEnter
    \/ PageChangeClamp
    \/ PageChangeCall
    \/ PageChangeFinally
    \/ FetchReset
    \/ FetchResetWrite
    \/ FetchResetFinally
    \/ FetchRequest
    \/ FetchPages
    \/ FetchGotoWrite
    \/ FetchGotoFinally

FairSpecPage == InitPage /\ [][NextPage]_vars /\ WF_vars(HandlerStep)

\* every chain of handlers a user event starts comes to its end
HandlersTerminate == (~Idle) ~> Idle

----------------------------------------------------------------------------
(* Claims about the browser, checked under SpecPage                        *)

\* the page a request for page g lands on when T pages are known
ClampedTo(g, T) == Max(1, Min(g, T))

\* ceil(t / 40), never below 1
CeilPages(t) ==
    IF t = 0 THEN 1
    ELSE CHOOSE n \in 1..(t + 1) :
            (n - 1) * MATERIALS_PER_PAGE < t /\ t <= n * MATERIALS_PER_PAGE

\* C1: whenever no handler runs, the displayed page is the page of the
\* stored offset: current_page = offset div 40 + 1, also after a fetch
\* that failed.
C1_PageMatchesOffset ==
    Idle => ambientcg_current_page =
               (ambientcg_browser_offset \div MATERIALS_PER_PAGE) + 1

\* C2: one edit of the page field runs the clamp-and-refetch body once and
\* sends one request; every on_page_change started by a handler's own write
\* to the page field finds the guard set, so it stays at its entry and
\* returns, and the chain of handlers is never deeper than three frames.
C2_OneFetchPerPageEdit ==
    /\ event.kind = "page" => (fetches <= 1 /\ clamps <= 1)
    /\ (Idle /\ event.kind = "page") => (fetches = 1 /\ clamps = 1)
    /\ \A i \in 2..Len(stack) :
          stack[i].fn = "on_page_change" =>
             (stack[i].pc = "enter" /\ updating_page)
    /\ Len(stack) <= 3
    /\ Idle => ~updating_page

\* C2's case: the fetch started by a page edit has written the page field
\* and the callback that write started is on the stack.
C2_Witness ==
    /\ event.kind = "page"
    /\ Len(stack) = 3
    /\ Top.fn = "on_page_change"
    /\ stack[2].pc = "goto_finally"
    /\ fetches = 1

\* C3: a page edit asking for page g while T >= 1 pages are stored leaves,
\* before the fetch starts, offset = (clamp(g, 1, T) - 1) * 40; page 0
\* lands on 1, a page beyond T on T; with T = 3 page 2 gives offset 40 and
\* page 4 gives offset 80 and, once fetched, page 3.
C3_ClampThenOffset ==
    event.kind = "page" =>
       LET c == ClampedTo(event.g, event.T) IN
       /\ event.T >= 1
       /\ (Len(stack) = 1 /\ Top.pc = "call") =>
             /\ fetches = 0
             /\ ambientcg_browser_offset = (c - 1) * MATERIALS_PER_PAGE
             /\ 1 <= c /\ c <= event.T
             /\ (event.g = 0 => ambientcg_browser_offset = 0)
             /\ (event.g > event.T =>
                    ambientcg_browser_offset =
                       (event.T - 1) * MATERIALS_PER_PAGE)
             /\ (event.T = 3 /\ event.g = 2 => ambientcg_browser_offset = 40)
             /\ (event.T = 3 /\ event.g = 4 => ambientcg_browser_offset = 80)
       /\ fetches >= 1 => request.offset = (c - 1) * MATERIALS_PER_PAGE
       /\ (Idle /\ last_result = "FINISHED") => ambientcg_current_page = c

\* C3's case: 105 results are stored (three pages), page 4 was asked for
\* and the handler is about to fetch with offset 80.
C3_Witness ==
    /\ event.kind = "page"
    /\ event.g = 4
    /\ ambientcg_browser_total = 105
    /\ ambientcg_total_pages = 3
    /\ Len(stack) = 1
    /\ Top.pc = "call"
    /\ ambientcg_browser_offset = 80

\* C4: after a fetch that returned FINISHED, run with offset o and answered
\* with t results, current_page = o div 40 + 1, total_pages =
\* max(1, ceil(t / 40)) and goto_page = current_page; total_pages is at
\* least 1 in every state.
C4_PagesAfterFetch ==
    /\ ambientcg_total_pages >= 1
    /\ (Idle /\ last_result = "FINISHED") =>
          /\ ambientcg_current_page =
                (request.offset \div MATERIALS_PER_PAGE) + 1
          /\ ambientcg_total_pages = CeilPages(ambientcg_browser_total)
          /\ ambientcg_goto_page = ambientcg_current_page

\* C4's case: a fetch of a later page succeeded with no results at all.
C4_Witness ==
    /\ Idle
    /\ last_result = "FINISHED"
    /\ ambientcg_browser_total = 0
    /\ request.offset = 80
    /\ ambientcg_current_page = 3
    /\ ambientcg_total_pages = 1

\* C5: a search sets offset 0 and page field 1 before its request is
\* built, sends exactly one request, with offset 0, never runs the
\* clamp-and-refetch body, and on success shows page 1.
C5_SearchResets ==
    event.kind = "search" =>
       /\ fetches <= 1
       /\ clamps = 0
       /\ (Len(stack) = 1 /\ Top.pc = "request") =>
             (ambientcg_browser_offset = 0 /\ ambientcg_goto_page = 1)
       /\ fetches >= 1 => request.offset = 0
       /\ Idle => fetches = 1
       /\ (Idle /\ last_result = "FINISHED") =>
             (ambientcg_current_page = 1 /\ ambientcg_goto_page = 1)

\* C5's case: a search pressed while page 3 was shown has succeeded.
C5_Witness ==
    /\ Idle
    /\ event.kind = "search"
    /\ event.page0 = 3
    /\ last_result = "FINISHED"
    /\ request.offset = 0
    /\ ambientcg_current_page = 1

----------------------------------------------------------------------------
(* Claims about the texture files, checked under SpecTex                   *)

Range(seq) == {seq[i] : i \in 1..Len(seq)}

\* the accesses a call makes to the contents of image files
ContentAccesses(log) ==
    {a \in Range(log) : a.what \in {"load", "scale", "save", "remove"}}

\* the paths the last process_texture call used, source or destination,
\* among those the mark just before it renamed
UsedMarked ==
    IF op.kind = "process"
       THEN {op.args.src, op.dst} \cap op.mark.renamed
       ELSE {}

\* in the call's log the restore of p comes before every other access to p
RestoredFirst(log, p) ==
    \E i \in 1..Len(log) :
       /\ log[i] = Access("restore", p)
       /\ \A j \in 1..Len(log) :
             (log[j].path = p /\ log[j].what # "restore") => i < j

\* C6: a mark that ran on a configured, existing folder renamed exactly
\* the files of F \ L, left F \cap L and the already flagged files alone,
\* and counted |F \ L| (F: the unflagged *.png files found, L: the paths of
\* the loaded images).
C6_MarksExactlyUnloaded ==
    (op.kind = "mark" /\ op.result = "FINISHED") =>
       LET FL == op.F \ op.L IN
       /\ op.renamed = FL
       /\ op.count = Cardinality(FL)
       /\ files = (op.before \ {FileName(p, FALSE) : p \in FL})
                     \cup {FileName(p, TRUE) : p \in FL}

\* C7 as claimed: when process_texture uses, as source or destination, a
\* path the preceding mark renamed, it restores the path before touching
\* it and the set of file names is again what it was before the mark.
C7_NamesAsBeforeMark ==
    UsedMarked # {} =>
       /\ \A p \in UsedMarked : RestoredFirst(op.log, p)
       /\ files = op.mark.before

\* C7 as amended: when process_texture uses, as source or destination, a
\* path p the preceding mark renamed, it restores p before any existence
\* check, load or write of p, and afterwards p is on disk under its
\* original name and not under the flagged one, as before the mark; the
\* other files that mark flagged stay flagged.
C7_RestoresUsedPath ==
    UsedMarked # {} =>
       /\ ~op.raised
       /\ \A p \in UsedMarked :
             /\ RestoredFirst(op.log, p)
             /\ FileName(p, FALSE) \in files
             /\ FileName(p, TRUE) \notin files
             /\ FileName(p, FALSE) \in op.mark.before
             /\ FileName(p, TRUE) \notin op.mark.before
       /\ \A q \in op.mark.renamed \ {op.args.src, op.dst} :
             FileName(q, TRUE) \in files /\ FileName(q, FALSE) \notin files

\* C7's case: the mark flagged both the source and the destination of the
\* call that followed it.
C7_Witness ==
    /\ op.kind = "process"
    /\ op.args.src \in op.mark.renamed
    /\ op.dst \in op.mark.renamed
    /\ Cardinality(op.mark.renamed) > 2

\* C8 as claimed: a process_texture call with the source, output folder,
\* scale and material name of an earlier call that returned gives back the
\* same value and makes no load, scale, save or remove.
C8_SecondCallSamePath ==
    (op.kind = "process" /\ op.earlier # {}) =>
       /\ \A d \in op.earlier : d.ret = op.ret
       /\ ContentAccesses(op.log) = {}

\* C8 as amended: such a call names the same destination file as the
\* earlier one and makes no load, scale, save or remove, the destination
\* being on disk before and after; the value returned is the same if the
\* relative-path flag is the same too and the .blend file has not been
\* given a location in between.
C8_Idempotent ==
    (op.kind = "process" /\ op.earlier # {}) =>
       /\ ~op.raised
       /\ ContentAccesses(op.log) = {}
       /\ files = restore_unused_texture(
                     restore_unused_texture(op.before, op.args.src), op.dst)
       /\ Exists(files, op.dst)
       /\ \A d \in op.earlier :
             /\ d.ret.path = op.ret.path
             /\ (d.rel = op.rel /\ d.saved = op.saved) => d.ret = op.ret

\* C8's case: the second call comes after a mark that flagged the
\* destination the first call wrote.
C8_Witness ==
    /\ op.kind = "process"
    /\ op.earlier # {}
    /\ op.dst \in op.mark.renamed

----------------------------------------------------------------------------
(* Claims about fetch_and_create, checked under SpecMat                    *)

\* C9: no operator returns FINISHED with part of its work undone: a mark
\* that finished renamed every file of F \ L, and a fetch_and_create that
\* finished wired every enabled channel.
C9_NoPartialSuccess ==
    /\ (op.kind = "mark" /\ op.result = "FINISHED") =>
          op.renamed = op.F \ op.L
    /\ (op.kind = "create" /\ op.result = "FINISHED") =>
          \A ch \in Channels :
             op.use[ch] =>
                (ch \in op.nodes /\
                 [from |-> ch, to |-> TargetInput(ch)] \in op.links)

\* C10: a material that was built has an image node only for enabled
\* channels; a disabled channel has no node and no link; with Metalness
\* (Roughness) disabled the Metallic (Roughness) input has no incoming link
\* and holds the configured default, and with it enabled no default is
\* written.
C10_OnlyEnabledChannels ==
    (op.kind = "create" /\ op.result = "FINISHED") =>
       /\ \A ch \in op.nodes : op.use[ch]
       /\ \A ch \in Channels :
             ~op.use[ch] =>
                (ch \notin op.nodes /\ \A l \in op.links : l.from # ch)
       /\ ~op.use["Metalness"] =>
             /\ \A l \in op.links : l.to # "Metallic"
             /\ op.metallic = [written |-> TRUE,
                               value |-> scene.default_metallic]
       /\ op.use["Metalness"] => ~op.metallic.written
       /\ ~op.use["Roughness"] =>
             /\ \A l \in op.links : l.to # "Roughness"
             /\ op.roughness = [written |-> TRUE,
                                value |-> scene.default_roughness]
       /\ op.use["Roughness"] => ~op.roughness.written

\* C10's case: Metalness and Roughness are disabled with defaults 0.3 and
\* 0.7, their textures are in the cache entry, and the Color channel was
\* wired.
C10_Witness ==
    /\ op.kind = "create"
    /\ op.result = "FINISHED"
    /\ ~op.use["Metalness"]
    /\ ~op.use["Roughness"]
    /\ Listed(op.before, "Metalness") /\ Listed(files, "Metalness")
    /\ Listed(op.before, "Roughness") /\ Listed(files, "Roughness")
    /\ op.metallic.value = 30
    /\ op.roughness.value = 70
    /\ "Color" \in op.nodes
    /\ op.nodes \cap {"Metalness", "Roughness"} = {}

----------------------------------------------------------------------------
(* Claims about the cache entry, checked under SpecMat                     *)

\* lines 154-182: did this run of execute go into the download branch?
\* CANCELLED is returned only from inside it (lines 173 and 182), and a run
\* that got through it has downloaded the archive.
Attempted(o) == o.downloaded \/ o.result = "CANCELLED"

\* C11: fetch_and_create downloads and extracts exactly when the cache
\* entry {cache}/{material}_{resolution} does not exist when it is invoked:
\* with the entry missing it goes for the archive, with the entry present
\* (whatever it holds) it never does; and a download that failed leaves no
\* entry, returns CANCELLED and builds nothing.
C11_DownloadsIffNoEntry ==
    op.kind = "create" =>
       /\ Attempted(op) <=> ~op.entry_before
       /\ (Attempted(op) /\ ~op.downloaded) =>
             /\ op.result = "CANCELLED"
             /\ "extract" \notin dirs
             /\ op.nodes = {}
             /\ files = op.before

\* the same with the existence test placed where the code has it, after the
\* custom output folder was created (line 150): a custom folder that is the
\* cache entry itself makes the entry exist
DownloadsIffNoEntryAtTest ==
    op.kind = "create" =>
       /\ Attempted(op) <=>
             ~(op.entry_before \/
               (scene.use_custom_folder /\ scene.custom_folder = "extract"))
       /\ (Attempted(op) /\ ~op.downloaded) =>
             /\ op.result = "CANCELLED"
             /\ "extract" \notin dirs
             /\ op.nodes = {}
             /\ files = op.before

----------------------------------------------------------------------------
(* Claims about flagged textures in the cache entry, checked under         *)
(* SpecCache                                                               *)

\* the source texture of channel ch is on disk under its flagged name
Flagged(fs, ch) == FileName(SrcPath(ch), TRUE) \in fs

\* C12: when the source texture of an enabled channel was flagged
\* (renamed to <name>.unused) before fetch_and_create runs, the operator
\* renames it back and gives the channel its image node and link, as if the
\* file had never been flagged.
C12_FlaggedSourceRestored ==
    (op.kind = "create" /\ op.result = "FINISHED") =>
       \A ch \in Channels :
          (op.use[ch] /\ Flagged(op.before, ch)) =>
             /\ ~Flagged(files, ch)
             /\ Listed(files, ch)
             /\ ch \in op.nodes
             /\ [from |-> ch, to |-> TargetInput(ch)] \in op.links

----------------------------------------------------------------------------
(* Claims about the thumbnail prefetch, checked under SpecThumbs           *)

\* at most max_workers calls run at once; the page fields are set and the
\* operator returns only when every call has returned; a fetch whose
\* request was answered returns FINISHED with every call run, whatever
\* failed; a file in the preview cache is never downloaded again
PrefetchBoundedAndJoined ==
    /\ Count(active) <= max_workers
    /\ tpc \in {"pages", "idle"} => PoolJoined(pending, active)
    /\ prefetch.unfinished = 0
    /\ (tpc = "idle" /\ prefetch.response) =>
          /\ last_result = "FINISHED"
          /\ prefetch.skipped + prefetch.ok + prefetch.failed = page_assets
    /\ prefetch.redone = 0
    /\ prefetch.skipped <= prefetch.cached0

\* C13: the thumbnail prefetch runs at most 20 download_preview calls at
\* once, all have returned before the page fields are set and the operator
\* returns, a failed download is swallowed and leaves just that thumbnail
\* absent (the others are downloaded and the fetch is FINISHED), and a
\* thumbnail in the preview cache is not downloaded again.
C13_PrefetchLeavesFailedAbsent ==
    /\ PrefetchBoundedAndJoined
    /\ (tpc = "idle" /\ prefetch.response) =>
          /\ thumbs.whole + thumbs.partial = prefetch.cached0 + prefetch.ok
          /\ page_assets - (thumbs.whole + thumbs.partial) = prefetch.failed

----------------------------------------------------------------------------
(* Claims about the resize step, checked under SpecResize                  *)

\* dim * k / 1000 with its fraction dropped, one less where the product is
\* whole and the stored multiplier lies below the typed one
Truncated(dim, k) ==
    IF (dim * k) % 1000 = 0 /\ F32(k).dir < 0
       THEN (dim * k) \div 1000 - 1
       ELSE (dim * k) \div 1000

\* dim * k / 1000 rounded to the nearest integer, halves to the even one
Rounded(dim, k) ==
    LET q == (dim * k) \div 1000
        r == (dim * k) % 1000
    IN IF r > 500 \/ (r = 500 /\ q % 2 = 1) THEN q + 1 ELSE q

\* the closed form of the epsilon test that process_texture's model uses
\* is the test computed on the stored value
EpsilonClosedForm ==
    NeedsScale(scene.resize_multiplier) =
       ExceedsEpsilon(scene.resize_multiplier)

\* C14 as stated: with the destination missing, the target width and
\* height are round(dim * scale), the image is rescaled exactly when
\* |scale - 1.0| > 0.001, and within 0.001 of 1.0 the written image has
\* the source's dimensions.
C14_RoundedTarget ==
    (op.kind = "resize" /\ op.loaded) =>
       /\ op.target = <<Rounded(op.size[1], op.scale),
                        Rounded(op.size[2], op.scale)>>
       /\ op.scaled <=> (op.scale < 999 \/ op.scale > 1001)
       /\ ~op.scaled => op.written = op.size

\* C14, amended: with the destination missing, the target width and height
\* are int(dim * scale), the product with the stored 32-bit multiplier with
\* its fraction dropped; the image is rescaled to them for every
\* multiplier of the grid but 0.999 and 1.000 (1.001 is stored above
\* 1.001 and is rescaled); without a resize the written image has the
\* source's dimensions.
C14_TruncatedTarget ==
    (op.kind = "resize" /\ op.loaded) =>
       /\ op.target = <<Truncated(op.size[1], op.scale),
                        Truncated(op.size[2], op.scale)>>
       /\ op.scaled <=> op.scale \notin {999, 1000}
       /\ op.scaled =>
             op.written = <<Max(1, op.target[1]), Max(1, op.target[2])>>
       /\ ~op.scaled => op.written = op.size

\* C14's case: a 3 x 1024 source halved is written as 1 x 512.
C14_Witness ==
    /\ op.kind = "resize"
    /\ op.loaded
    /\ op.scale = 500
    /\ op.size = <<3, 1024>>
    /\ op.scaled
    /\ op.written = <<1, 512>>
    /\ Exists(files, OutputPath(SrcPath("Color"), "extract", 500, Material))

----------------------------------------------------------------------------
(* Claim about the displayed page, checked under SpecPage                  *)

\* C15: whenever no operator or callback runs, after any searches, page
\* edits and edits of the search field, the displayed page is within
\* range: 1 <= ambientcg_current_page <= ambientcg_total_pages.
C15_PageWithinRange ==
    Idle => /\ 1 <= ambientcg_current_page
            /\ ambientcg_current_page <= ambientcg_total_pages

====
